---- MODULE Spec2Model ----
(***************************************************************************)
(* A model of the Ultravox client session controller (UltravoxSession).   *)
(*                                                                         *)
(* Source variants modelled:                                               *)
(*   "current" : src/unnamed/part_000 (ordinal transcripts, sendData       *)
(*               routing); its lifecycle code is the same in               *)
(*               src/unnamed/part_001 and src/src/index.ts                 *)
(*   "tail"    : src/unnamed/part_001 and src/src/index.ts (transcripts    *)
(*               kept by replacing the tail entry)                         *)
(*   "legacy"  : src/dist/cjs/session.js (UltravoxSessionState)            *)
(*                                                                         *)
(* Scheduling: one event-handler turn is one action.  An async function   *)
(* is split at each await: the part before the await is one action, the   *)
(* continuation another.  A continuation of `await undefined` is a        *)
(* microtask and runs before any further I/O event is delivered.          *)
(***************************************************************************)
EXTENDS Integers, Sequences, FiniteSets, TLC

\* ---------------------------------------------------------------- bounds
\* sockets ever opened by joinCall
MaxSockets == 2
\* rooms ever created by handleSocketMessage
MaxRooms == 2
\* disconnect() invocations suspended at their await at one time
MaxPending == 2

SocketIds == 1..MaxSockets
RoomIds == 1..MaxRooms

\* ----------------------------------------------------- UltravoxSessionStatus
DISCONNECTED == "disconnected"
DISCONNECTING == "disconnecting"
CONNECTING == "connecting"
IDLE == "idle"
LISTENING == "listening"
THINKING == "thinking"
SPEAKING == "speaking"

Statuses ==
  {DISCONNECTED, DISCONNECTING, CONNECTING, IDLE, LISTENING, THINKING, SPEAKING}

CONNECTED_STATUSES == {LISTENING, THINKING, SPEAKING}

\* the values the server puts in the `state` field of a state message
ServerStates == {IDLE, LISTENING, THINKING, SPEAKING}

VARIABLES
  build,                \* which source variant runs: "current", "tail" or "legacy"
  status,               \* this._status
  socket,               \* this.socket: a socket id, 0 when undefined
  room,                 \* this.room: a room id, 0 when undefined
  localAudioTrack,      \* this.localAudioTrack: id of the handshake that made it, 0 when undefined
  micSourceNode,        \* this.micSourceNode !== undefined
  agentSourceNode,      \* this.agentSourceNode !== undefined
  delayedSpeakingState, \* this.delayedSpeakingState
  sockState,            \* per WebSocket: "unused", "open", "closing" (close() called), "closed" (close event delivered)
  roomState,            \* per Room: "unused", "connecting", "connected", "disconnected" (disconnect() called), "aborted" (disconnect() called before it connected)
  hs,                   \* per Room: the handleSocketMessage call that made it: "none", "pending" (at its await), "done", "failed"
  roomSock,             \* per Room: the socket whose message created it, 0 if none
  discMicro,            \* disconnect() calls suspended at `await undefined`
  discMacro,            \* disconnect() calls suspended at `await room.disconnect()`
  \* ---- observation of the last handler turn
  op,                   \* the handler that ran
  arg,                  \* its string input, "" if none
  threw,                \* it threw
  event,                \* the status it dispatched a status-changed event for, "none" if none
  sent,                 \* where its outbound message went: "none", "data", "socket", "dropped"
  sentBytes,            \* the UTF-8 length of the message it passed to sendData, 0 if none
  tick,                 \* flips every turn
  tevent,               \* it dispatched a transcripts-changed event
  tseen,                \* what the transcripts accessor returned to the listener of the last such event
  \* ---- history
  utt,                  \* the utterance being delivered: a full text followed by deltas
  msg,                  \* the last transcript message with an ordinal, where the specification keeps it; NoMsg if none
  hsTorn,               \* per Room: its handshake is pending and a teardown has begun since it started
  lc,                   \* leaveCall calls in succession (nothing but their continuations in between)
  dn,                   \* Disconnected events dispatched since the first of those calls
  \* ---- transcript store
  transcripts,          \* this._transcripts
  \* ---- tool dispatch
  registeredTools,      \* the names this.registeredTools has an implementation for
  toolState,            \* per invocation id: "unused", "pending" (its promise is not settled), "done"
  out,                  \* the message the last tool turn passed to sendData, NoMessage if none
  outcome,              \* what the tool did in the last tool turn: the invocation and its outcome
  \* ---- host-facing configuration and flags
  experimentalMessages, \* this.experimentalMessages: the message types the constructor was given
  xevent,               \* the type of the message the last experimental-message event carried, "none" if there was none
  isMicMuted,           \* this._isMicMuted
  isSpeakerMuted,       \* this._isSpeakerMuted
  micDisabled,          \* the Room in this.room: the last call of setMicrophoneEnabled on it passed false
  agentMuted            \* the Room in this.room: the last pass of setMuted over its agent tracks passed true, and no track has been subscribed since

progVars ==
  <<status, socket, room, localAudioTrack, micSourceNode, agentSourceNode,
    delayedSpeakingState, sockState, roomState, hs, roomSock, discMicro, discMacro>>

\* every program variable but status
progVars2 ==
  <<socket, room, localAudioTrack, micSourceNode, agentSourceNode,
    delayedSpeakingState, sockState, roomState, hs, roomSock, discMicro, discMacro>>

obsVars == <<op, arg, threw, event, sent, sentBytes, tick>>

histVars == <<hsTorn, lc, dn>>

\* what the session's lifecycle handlers leave alone
trVars == <<transcripts, tevent, tseen, utt, msg>>

toolVars == <<registeredTools, toolState, out, outcome>>

hostVars == <<experimentalMessages, xevent, isMicMuted, isSpeakerMuted, micDisabled, agentMuted>>

tVars == <<trVars, toolVars, hostVars>>

\* what the transcript handlers leave alone
lifeVars == <<progVars, event, sent, sentBytes, hsTorn, lc, dn, toolVars, hostVars>>

vars == <<build, progVars, obsVars, histVars, tVars>>

Min(a, b) == IF a < b THEN a ELSE b

\* no transcript message with an ordinal has arrived
NoMsg == [ordinal |-> -1, medium |-> "", role |-> "", final |-> "undefined", text |-> "", delta |-> ""]

\* no utterance under way
NoUtt == [active |-> FALSE, text |-> "", final |-> "undefined", speaker |-> "null", at |-> 0]

\* -------------------------------------------------------------- setStatus
\* Whether setStatus(new) dispatches a status-changed event when the status is cur.
StatusFires_NoGuard(b, cur, new) == TRUE

StatusFires(b, cur, new) == IF b = "legacy" THEN TRUE ELSE cur # new

SetStatus(new) ==
  /\ status' = new
  /\ event' = IF StatusFires(build, status, new) THEN new ELSE "none"

NoStatus == status' = status /\ event' = "none"

\* sendData is not called
NoSend == sent' = "none" /\ sentBytes' = 0

Mark(o, a, t) ==
  /\ op' = o
  /\ arg' = a
  /\ threw' = t
  /\ tick' = 1 - tick

\* history of leaveCall runs; k is "leave", "resume" or "other"
History(k) ==
  /\ lc' = CASE k = "leave" ->
                  IF lc = 0 /\ discMicro + discMacro > 0 THEN 0 ELSE Min(lc + 1, 3)
             [] k = "resume" -> lc
             [] OTHER -> 0
  /\ dn' = CASE k = "other" -> 0
             [] OTHER -> IF lc' > 0 /\ event' = DISCONNECTED THEN Min(dn + 1, 3) ELSE dn

\* ---- wire messages and tool outcomes
\* invocation ids the server assigns, each used once
MaxInvocations == 2
InvocationIds == {"inv" \o ToString(i) : i \in 1..MaxInvocations}
ToolNames == {"foo", "bar"}

\* the properties of an outbound client_tool_result and of an object a tool returns;
\* "absent" for a property that is not there, "#num" for a value that is no string
Fields ==
  {"type", "invocationId", "result", "responseType", "agentReaction", "updateCallState",
   "errorType", "errorMessage"}

Absent == "absent"
NoMessage == [f \in Fields |-> Absent]
IsString(v) == v \notin {Absent, "#num"}

Obj(result, responseType) ==
  [NoMessage EXCEPT !["result"] = result, !["responseType"] = responseType]

\* what a tool implementation may do: return a string, return an object, return
\* null or undefined, throw (or reject with) an Error or something else
ToolOutcome(kind, value, obj, error) ==
  [kind |-> kind, value |-> value, obj |-> obj, error |-> error]

Outcomes ==
  {ToolOutcome("string", "s", NoMessage, Absent),
   ToolOutcome("null", Absent, NoMessage, Absent),
   ToolOutcome("throw", Absent, NoMessage, "Error"),
   ToolOutcome("throw", Absent, NoMessage, "other")}
  \cup
  {ToolOutcome("object", Absent, o, Absent) :
     o \in {Obj("r", "tool-response"),
            [Obj("r", "tool-response") EXCEPT !["agentReaction"] = "speaks"],
            [Obj("r", "tool-response") EXCEPT !["invocationId"] = "other"],
            [Obj("r", "tool-response") EXCEPT !["type"] = "x"],
            Obj("r", Absent),
            Obj("#num", "tool-response"),
            NoMessage}}

NoOutcome == [id |-> Absent, tool |-> Absent, how |-> "none", o |-> ToolOutcome("none", Absent, NoMessage, Absent)]

ToolsInit ==
  /\ registeredTools = {}
  /\ toolState = [i \in InvocationIds |-> "unused"]
  /\ out = NoMessage
  /\ outcome = NoOutcome

\* new UltravoxSession(): experimentalMessages || new Set(), both flags false
HostInit ==
  /\ experimentalMessages = {}
  /\ xevent = "none"
  /\ isMicMuted = FALSE
  /\ isSpeakerMuted = FALSE
  /\ micDisabled = FALSE
  /\ agentMuted = FALSE

Init ==
  /\ build = "current"
  /\ status = DISCONNECTED
  /\ socket = 0
  /\ room = 0
  /\ localAudioTrack = 0
  /\ micSourceNode = FALSE
  /\ agentSourceNode = FALSE
  /\ delayedSpeakingState = FALSE
  /\ sockState = [s \in SocketIds |-> "unused"]
  /\ roomState = [r \in RoomIds |-> "unused"]
  /\ hs = [r \in RoomIds |-> "none"]
  /\ roomSock = [r \in RoomIds |-> 0]
  /\ discMicro = 0
  /\ discMacro = 0
  /\ op = "init"
  /\ arg = ""
  /\ threw = FALSE
  /\ event = "none"
  /\ sent = "none"
  /\ sentBytes = 0
  /\ tick = 0
  /\ hsTorn = [r \in RoomIds |-> FALSE]
  /\ lc = 0
  /\ dn = 0
  /\ transcripts = <<>>
  /\ tevent = FALSE
  /\ utt = NoUtt
  /\ tseen = <<>>
  /\ msg = NoMsg
  /\ ToolsInit
  /\ HostInit

\* ---------------------------------------------------------------- joinCall
JoinGuard_None(st) == TRUE

JoinGuard(st) == st = DISCONNECTED

FreshSocket(s) ==
  /\ sockState[s] = "unused"
  /\ \A t \in SocketIds : t < s => sockState[t] # "unused"

JoinCall ==
  /\ Mark("joinCall", "", ~JoinGuard(status))
  /\ NoSend
  /\ IF ~JoinGuard(status)
     THEN /\ NoStatus
          /\ UNCHANGED <<socket, sockState>>
     ELSE /\ \E s \in SocketIds :
               /\ FreshSocket(s)
               /\ socket' = s
               /\ sockState' = [sockState EXCEPT ![s] = "open"]
          /\ SetStatus(CONNECTING)
  /\ History("other")
  /\ UNCHANGED <<build, tVars, room, localAudioTrack, micSourceNode, agentSourceNode,
                 delayedSpeakingState, roomState, hs, roomSock, discMicro, discMacro, hsTorn>>

\* -------------------------------------------------------------- disconnect
\* room.disconnect(): a room still connecting never connects (its connect() does not
\* resolve); a connected room delivers no further events
RoomAfterDisconnect(rs) == IF rs \in {"connecting", "aborted"} THEN "aborted" ELSE "disconnected"

\* disconnect() up to its await.  hsNow is the new value of hs (the caller may be a
\* handshake continuation that has just finished).
DisconnectBegin(hsNow) ==
  /\ discMicro + discMacro < MaxPending
  /\ IF build = "legacy" /\ status = DISCONNECTING THEN NoStatus ELSE SetStatus(DISCONNECTING)
  /\ localAudioTrack' = 0
  /\ IF room # 0
     THEN /\ roomState' = [roomState EXCEPT ![room] = RoomAfterDisconnect(roomState[room])]
          /\ discMacro' = discMacro + 1
          /\ discMicro' = discMicro
     ELSE /\ roomState' = roomState
          /\ discMicro' = discMicro + 1
          /\ discMacro' = discMacro
  /\ hsTorn' = [r \in RoomIds |-> hsNow[r] = "pending"]

\* what disconnect() leaves of this._transcripts: it makes no assignment to it
TranscriptsAfterDisconnect_Cleared(ts) == <<>>

TranscriptsAfterDisconnect(ts) == ts

\* disconnect() after its await
DisconnectEnd ==
  /\ transcripts' = TranscriptsAfterDisconnect(transcripts)
  /\ room' = 0
  /\ sockState' = IF socket # 0 /\ sockState[socket] = "open"
                  THEN [sockState EXCEPT ![socket] = "closing"]
                  ELSE sockState
  /\ socket' = 0
  /\ micSourceNode' = FALSE
  /\ agentSourceNode' = FALSE
  /\ SetStatus(DISCONNECTED)

LeaveCall ==
  /\ Mark("leaveCall", "", FALSE)
  /\ NoSend
  /\ DisconnectBegin(hs)
  /\ History("leave")
  /\ UNCHANGED <<build, tVars, socket, room, micSourceNode, agentSourceNode,
                 delayedSpeakingState, sockState, hs, roomSock>>

DisconnectResumeMicro ==
  /\ discMicro > 0
  /\ discMicro' = discMicro - 1
  /\ discMacro' = discMacro
  /\ Mark("disconnected", "", FALSE)
  /\ NoSend
  /\ DisconnectEnd
  /\ History("resume")
  /\ UNCHANGED <<build, tevent, tseen, utt, msg, toolVars, hostVars, localAudioTrack,
                 delayedSpeakingState, roomState, hs, roomSock, hsTorn>>

DisconnectResumeMacro ==
  /\ discMicro = 0
  /\ discMacro > 0
  /\ discMacro' = discMacro - 1
  /\ discMicro' = discMicro
  /\ Mark("disconnected", "", FALSE)
  /\ NoSend
  /\ DisconnectEnd
  /\ History("resume")
  /\ UNCHANGED <<build, tevent, tseen, utt, msg, toolVars, hostVars, localAudioTrack,
                 delayedSpeakingState, roomState, hs, roomSock, hsTorn>>

\* ------------------------------------------------------- handleSocketClose
\* the close event of socket s: the server closed it, or close() was called on it
SocketClose(s) ==
  /\ discMicro = 0
  /\ sockState[s] \in {"open", "closing"}
  /\ Mark("socketClose", "", FALSE)
  /\ NoSend
  /\ DisconnectBegin(hs)
  /\ sockState' = [sockState EXCEPT ![s] = "closed"]
  /\ History("other")
  /\ UNCHANGED <<build, tVars, socket, room, micSourceNode, agentSourceNode,
                 delayedSpeakingState, hs, roomSock>>

\* ----------------------------------------------------- handleSocketMessage
FreshRoom(r) ==
  /\ roomState[r] = "unused"
  /\ \A q \in RoomIds : q < r => roomState[q] # "unused"

\* up to the await of Promise.all([createLocalAudioTrack(), room.connect()])
SocketMessage(s) ==
  /\ discMicro = 0
  /\ sockState[s] = "open"
  /\ \E r \in RoomIds :
       /\ FreshRoom(r)
       /\ room' = r
       /\ roomState' = [roomState EXCEPT ![r] = "connecting"]
       /\ hs' = [hs EXCEPT ![r] = "pending"]
       /\ roomSock' = [roomSock EXCEPT ![r] = s]
       /\ Mark("socketMessage", "", FALSE)
  \* a new Room: its microphone has not been disabled, and it has no track yet
  /\ micDisabled' = FALSE
  /\ agentMuted' = FALSE
  /\ NoSend
  /\ NoStatus
  /\ History("other")
  /\ UNCHANGED <<build, trVars, toolVars, experimentalMessages, xevent, isMicMuted,
                 isSpeakerMuted, socket, localAudioTrack, micSourceNode, agentSourceNode,
                 delayedSpeakingState, sockState, discMicro, discMacro, hsTorn>>

\* room.connect() of room r resolved: the room delivers events from now on
RoomConnected(r) ==
  /\ discMicro = 0
  /\ roomState[r] = "connecting"
  /\ roomState' = [roomState EXCEPT ![r] = "connected"]
  /\ Mark("roomConnected", "", FALSE)
  /\ NoSend
  /\ NoStatus
  /\ History("other")
  /\ UNCHANGED <<build, tVars, socket, room, localAudioTrack, micSourceNode, agentSourceNode,
                 delayedSpeakingState, sockState, hs, roomSock, discMicro, discMacro, hsTorn>>

\* whether the continuation of the handshake tears down instead of going on
StoppedWhileJoining_None(st) == FALSE

StoppedWhileJoining(st) == st \in {DISCONNECTED, DISCONNECTING}

\* after the await: Promise.all resolved.  hasStream: localAudioTrack.mediaStream is set
HandshakeResolve(r, hasStream) ==
  /\ discMicro = 0
  /\ hs[r] = "pending"
  /\ roomState[r] \in {"connected", "disconnected"}
  /\ hs' = [hs EXCEPT ![r] = "done"]
  /\ NoSend
  /\ IF StoppedWhileJoining(status)
     THEN /\ DisconnectBegin(hs')
          /\ Mark("handshake", "stopped", FALSE)
          /\ UNCHANGED micSourceNode
     ELSE /\ localAudioTrack' = r
          /\ micSourceNode' = (micSourceNode \/ hasStream)
          /\ IF room = 0
             THEN \* this.room.localParticipant: TypeError
                  /\ NoStatus
                  /\ Mark("handshake", "joined", TRUE)
             ELSE /\ SetStatus(IDLE)
                  /\ Mark("handshake", "joined", FALSE)
          /\ hsTorn' = [hsTorn EXCEPT ![r] = FALSE]
          /\ UNCHANGED <<roomState, discMicro, discMacro>>
  /\ History("other")
  /\ UNCHANGED <<build, tVars, socket, room, agentSourceNode, delayedSpeakingState, sockState, roomSock>>

\* after the await: Promise.all rejected (capture refused, connect failed or aborted)
HandshakeReject(r) ==
  /\ discMicro = 0
  /\ hs[r] = "pending"
  /\ hs' = [hs EXCEPT ![r] = "failed"]
  /\ Mark("handshake", "rejected", TRUE)
  /\ NoSend
  /\ NoStatus
  /\ History("other")
  /\ hsTorn' = [hsTorn EXCEPT ![r] = FALSE]
  /\ UNCHANGED <<build, tVars, socket, room, localAudioTrack, micSourceNode, agentSourceNode,
                 delayedSpeakingState, sockState, roomState, roomSock, discMicro, discMacro>>

\* --------------------------------------------------- handleTrackSubscribed
\* hasStream: track.mediaStream is set
TrackSubscribed(r, hasStream) ==
  /\ discMicro = 0
  /\ roomState[r] = "connected"
  /\ agentSourceNode' = (agentSourceNode \/ hasStream)
  /\ IF delayedSpeakingState
     THEN /\ delayedSpeakingState' = FALSE
          /\ SetStatus(SPEAKING)
     ELSE /\ UNCHANGED delayedSpeakingState
          /\ NoStatus
  /\ Mark("trackSubscribed", IF hasStream THEN "stream" ELSE "", FALSE)
  \* the track comes unmuted
  /\ agentMuted' = IF r = room THEN FALSE ELSE agentMuted
  /\ NoSend
  /\ History("other")
  /\ UNCHANGED <<build, trVars, toolVars, experimentalMessages, xevent, isMicMuted,
                 isSpeakerMuted, micDisabled, socket, room, localAudioTrack, micSourceNode,
                 sockState, roomState, hs, roomSock, discMicro, discMacro, hsTorn>>

\* ------------------------------------------- handleDataReceived, type "state"
\* whether a state message is put off until the agent track is attached
DeferSpeaking_Never(newState, agentNode) == FALSE

DeferSpeaking(newState, agentNode) == newState = SPEAKING /\ ~agentNode

StateMessage(r, newState) ==
  /\ discMicro = 0
  /\ roomState[r] = "connected"
  /\ IF DeferSpeaking(newState, agentSourceNode)
     THEN /\ delayedSpeakingState' = TRUE
          /\ NoStatus
     ELSE /\ UNCHANGED delayedSpeakingState
          /\ SetStatus(newState)
  /\ Mark("state", newState, FALSE)
  /\ NoSend
  /\ History("other")
  /\ UNCHANGED <<build, tVars, socket, room, localAudioTrack, micSourceNode, agentSourceNode,
                 sockState, roomState, hs, roomSock, discMicro, discMacro, hsTorn>>

\* ------------------------------------------------ sendData and its callers
\* sendData: a message of more than 1024 bytes goes to the socket, any other to the room
DataSizeLimit == 1024

OverLimit_Swapped(bytes) == bytes <= DataSizeLimit

OverLimit(bytes) == bytes > DataSizeLimit

\* serialized sizes tried: a short message, one at the limit, one over it
MessageSizes == {40, DataSizeLimit, DataSizeLimit + 1}

\* the tail-replace variant publishes every message to the room
SendData(bytes) ==
  /\ sentBytes' = bytes
  /\ sent' = IF build # "tail" /\ OverLimit(bytes)
          THEN IF socket # 0 THEN "socket" ELSE "dropped"
          ELSE IF room # 0 THEN "data" ELSE "dropped"

\* sendText and setOutputMedium refuse to run outside these statuses
SendGuard_None(st) == TRUE

SendGuard(st) == st \in CONNECTED_STATUSES

SendText(bytes) ==
  /\ Mark("sendText", "", ~SendGuard(status))
  /\ IF SendGuard(status) THEN SendData(bytes) ELSE NoSend
  /\ NoStatus
  /\ History("other")
  /\ UNCHANGED <<build, tVars, progVars2, hsTorn>>

\* the set_output_medium message is always short
SetOutputMedium ==
  /\ Mark("setOutputMedium", "", ~SendGuard(status))
  /\ IF SendGuard(status) THEN SendData(40) ELSE NoSend
  /\ NoStatus
  /\ History("other")
  /\ UNCHANGED <<build, tVars, progVars2, hsTorn>>

\* ============================================================ transcripts
\* bounds: entries kept, characters of one entry's text
MaxEntries == 2
MaxTextLen == 3

\* Role, Medium
USER == "user"
AGENT == "agent"
VOICE == "voice"
TEXT == "text"

\* msg.final: true, false, or the field is absent
FinalFlags == {"true", "false", "undefined"}

Truthy(f) == f = "true"

\* the text and the delta a message may carry ("" also stands for an absent field
\* where the code only tests the field for truthiness); texts and deltas are of
\* different characters, so that the order of concatenation shows
TextPieces == {"", "a"}
DeltaPieces == {"", "b"}

Transcript(text, isFinal, speaker, medium) ==
  [text |-> text, isFinal |-> isFinal, speaker |-> speaker, medium |-> medium]

\* a null slot of the ordinal-indexed array
Null == [text |-> "", isFinal |-> "undefined", speaker |-> "null", medium |-> "null"]

Last(ts) == ts[Len(ts)]

WithinBounds(ts) ==
  /\ Len(ts) <= MaxEntries
  /\ \A i \in 1..Len(ts) : Len(ts[i].text) <= MaxTextLen

\* ---- addOrUpdateTranscript(transcript), tail-replace variants
ReplacesTail_IgnoresFinal(ts, t) == Len(ts) > 0 /\ t.speaker = Last(ts).speaker

ReplacesTail(ts, t) ==
  Len(ts) > 0 /\ ~Truthy(Last(ts).isFinal) /\ t.speaker = Last(ts).speaker

AddOrUpdateTail_ReplacesFirst(ts, t) ==
  IF ReplacesTail(ts, t) THEN [ts EXCEPT ![1] = t] ELSE Append(ts, t)

AddOrUpdateTail(ts, t) ==
  IF ReplacesTail(ts, t) THEN [ts EXCEPT ![Len(ts)] = t] ELSE Append(ts, t)

\* ---- addOrUpdateTranscript(ordinal, medium, speaker, isFinal, text, delta)
Pad_Filled(ts, n) ==
  ts \o [i \in 1..(IF n > Len(ts) THEN n - Len(ts) ELSE 0) |-> [Null EXCEPT !.speaker = "user"]]

Pad(ts, n) == ts \o [i \in 1..(IF n > Len(ts) THEN n - Len(ts) ELSE 0) |-> Null]

\* a || b on strings
Or(a, b) == IF a # "" THEN a ELSE b

OrdinalText_DeltaFirst(prior, text, delta) == Or(text, delta \o prior)

\* the text stored at an index that exists already
OrdinalText(prior, text, delta) == Or(text, prior \o delta)

AddOrUpdateOrdinal(ts, ordinal, medium, speaker, isFinal, text, delta) ==
  LET padded == Pad(ts, ordinal) IN
  IF Len(padded) = ordinal
  THEN Append(padded, Transcript(Or(text, Or(delta, "")), isFinal, speaker, medium))
  ELSE [padded EXCEPT ![ordinal + 1] =
          Transcript(OrdinalText(padded[ordinal + 1].text, text, delta),
                     isFinal, speaker, medium)]

\* ---- the transcripts accessor and UltravoxTranscriptsChangedEvent
\* get transcripts(): the ordinal variant leaves the null slots out
Visible(ts) == IF build = "current" THEN SelectSeq(ts, LAMBDA t : t # Null) ELSE ts

SeenAtDispatch_BeforeMutation(before, after) == Visible(before)

\* what a listener reads through the accessor when the event is dispatched
SeenAtDispatch(before, after) == Visible(after)

TranscriptsChanged ==
  /\ tevent' = TRUE
  /\ tseen' = SeenAtDispatch(transcripts, transcripts')

NoTranscriptsChanged ==
  /\ tevent' = FALSE
  /\ tseen' = tseen

\* ---- the utterance a run of messages delivers: a full text, then deltas of the
\* same speaker, up to a message whose final flag is set.  It is followed from the
\* messages alone; only the index of its entry is read off the store.
UttStart(piece, final, speaker, at) ==
  [active |-> TRUE, text |-> piece, final |-> final, speaker |-> speaker, at |-> at]

UttDelta(piece, final, speaker) ==
  IF utt.active /\ ~Truthy(utt.final) /\ utt.speaker = speaker
  THEN [utt EXCEPT !.text = utt.text \o piece, !.final = final]
  ELSE NoUtt

\* ---- handleDataReceived, type "transcript", tail-replace variant
\* mediumField: msg.transcript.medium
MediumOf(mediumField) == IF mediumField = "voice" THEN VOICE ELSE TEXT

\* the medium an entry records; the Transcript of dist/cjs has no medium
EntryMedium(m) == IF build = "legacy" THEN "undefined" ELSE m

\* the transcript message types a variant has a branch for
HandlesType(type) == build = "legacy" => type = "voice_synced_transcript"

UserTranscript(text, final, mediumField) ==
  /\ build \in {"tail", "legacy"}
  /\ roomState[room] = "connected"
  /\ transcripts' = AddOrUpdateTail(transcripts,
                       Transcript(text, final, USER, EntryMedium(MediumOf(mediumField))))
  /\ WithinBounds(transcripts')
  /\ TranscriptsChanged
  /\ threw' = FALSE
  /\ utt' = NoUtt
  /\ op' = "transcript"
  /\ arg' = "text"
  /\ tick' = 1 - tick
  /\ UNCHANGED <<build, lifeVars, msg>>

\* ---- handleDataReceived, types "voice_synced_transcript" and "agent_text_transcript"
AgentMedium(type) == IF type = "agent_text_transcript" THEN TEXT ELSE VOICE

\* the text of the entry a delta makes
DeltaText_DropsPrior(prior, delta) == delta

DeltaText(prior, delta) == prior \o delta

\* whether a delta has an entry to extend
DeltaApplies_AnySpeaker(ts) == Len(ts) > 0

DeltaApplies(ts) == Len(ts) > 0 /\ Last(ts).speaker = AGENT

AgentText(type, text, final) ==
  /\ build \in {"tail", "legacy"}
  /\ roomState[room] = "connected"
  /\ IF HandlesType(type)
     THEN /\ transcripts' = AddOrUpdateTail(transcripts,
                               Transcript(text, final, AGENT, EntryMedium(AgentMedium(type))))
          /\ WithinBounds(transcripts')
          /\ TranscriptsChanged
          /\ utt' = UttStart(text, final, AGENT, Len(transcripts'))
     ELSE /\ UNCHANGED <<transcripts, utt>>
          /\ NoTranscriptsChanged
  /\ threw' = FALSE
  /\ op' = "transcript"
  /\ arg' = "text"
  /\ tick' = 1 - tick
  /\ UNCHANGED <<build, lifeVars, msg>>

\* whether reading the tail's speaker throws: dist/cjs reads lastMessage.speaker
\* without testing that there is a last message
DeltaThrows(ts) == build = "legacy" /\ Len(ts) = 0

AgentDelta(type, delta, final) ==
  /\ build \in {"tail", "legacy"}
  /\ roomState[room] = "connected"
  /\ IF ~HandlesType(type)
     THEN /\ UNCHANGED <<transcripts, utt>>
          /\ NoTranscriptsChanged
          /\ threw' = FALSE
     ELSE /\ IF DeltaApplies(transcripts)
             THEN /\ transcripts' =
                       AddOrUpdateTail(transcripts,
                         Transcript(DeltaText(Last(transcripts).text, delta), final, AGENT,
                                    EntryMedium(AgentMedium(type))))
                  /\ WithinBounds(transcripts')
                  /\ TranscriptsChanged
             ELSE /\ UNCHANGED transcripts
                  /\ NoTranscriptsChanged
          /\ threw' = DeltaThrows(transcripts)
          /\ utt' = UttDelta(delta, final, AGENT)
  /\ op' = "transcript"
  /\ arg' = "delta"
  /\ tick' = 1 - tick
  /\ UNCHANGED <<build, lifeVars, msg>>

\* ---- handleDataReceived, type "transcript", ordinal variant
\* roleField: msg.role
RoleOf(roleField) == IF roleField = "agent" THEN AGENT ELSE USER

Ordinals == 0..(MaxEntries - 1)

\* kind "text": msg.text is piece; kind "delta": msg.text is absent and msg.delta is piece
OrdinalTranscript(ordinal, mediumField, roleField, final, kind, piece) ==
  /\ build = "current"
  /\ roomState[room] = "connected"
  /\ IF piece # ""
     THEN /\ transcripts' =
               AddOrUpdateOrdinal(transcripts, ordinal, MediumOf(mediumField), RoleOf(roleField),
                                  final,
                                  IF kind = "text" THEN piece ELSE "",
                                  IF kind = "delta" THEN piece ELSE "")
          /\ WithinBounds(transcripts')
          /\ TranscriptsChanged
          /\ utt' = IF kind = "text"
                    THEN UttStart(piece, final, RoleOf(roleField), ordinal + 1)
                    ELSE IF utt.active /\ utt.at # ordinal + 1
                         THEN utt
                         ELSE UttDelta(piece, final, RoleOf(roleField))
     ELSE \* neither msg.text nor msg.delta is truthy: the message is not applied
          /\ UNCHANGED <<transcripts, utt>>
          /\ NoTranscriptsChanged
  /\ threw' = FALSE
  /\ op' = "transcript"
  /\ arg' = IF piece # "" THEN kind ELSE "empty"
  /\ tick' = 1 - tick
  /\ UNCHANGED <<build, lifeVars>>

\* the same turn, with the message kept for inspection (of a message that is not
\* applied, its ordinal and final flag)
OrdinalMessage(ordinal, mediumField, roleField, final, kind, piece) ==
  /\ OrdinalTranscript(ordinal, mediumField, roleField, final, kind, piece)
  /\ msg' = IF piece # ""
            THEN [ordinal |-> ordinal, medium |-> mediumField, role |-> roleField, final |-> final,
                  text |-> IF kind = "text" THEN piece ELSE "",
                  delta |-> IF kind = "delta" THEN piece ELSE ""]
            ELSE [NoMsg EXCEPT !.ordinal = ordinal, !.final = final]

\* ============================================================ tool dispatch
\* registerToolImplementation
RegisterTool(name) ==
  /\ name \notin registeredTools
  /\ registeredTools' = registeredTools \cup {name}
  /\ Mark("registerTool", name, FALSE)
  /\ NoSend
  /\ NoStatus
  /\ History("other")
  /\ UNCHANGED <<build, trVars, hostVars, progVars2, hsTorn, toolState, out, outcome>>

\* the properties every client_tool_result starts from
ResultBase(id) ==
  [NoMessage EXCEPT !["type"] = "client_tool_result", !["invocationId"] = id]

\* { type, invocationId, ...result }: a property of the object replaces the one before it
Spread_KeepsBase(base, obj) ==
  [f \in Fields |-> IF base[f] # Absent THEN base[f] ELSE obj[f]]

Spread(base, obj) ==
  [f \in Fields |-> IF obj[f] # Absent THEN obj[f] ELSE base[f]]

\* the error a failure is reported with
FailureType_Undefined == "undefined"

FailureType == "implementation-error"

\* handleClientToolFailure; error is "Error" for an instance of Error
ClientToolFailure(id, error, message) ==
  [ResultBase(id) EXCEPT !["errorType"] = FailureType,
                         !["errorMessage"] = IF error = "Error" THEN message ELSE Absent]

\* whether handleClientToolResult refuses a non-string value
Malformed_ResultOnly(obj) == ~IsString(obj["result"])

Malformed(obj) == ~IsString(obj["result"]) \/ ~IsString(obj["responseType"])

\* the message a string result is reported with
StringResult_AsError(id, value) ==
  [ResultBase(id) EXCEPT !["result"] = value, !["errorType"] = FailureType]

StringResult(id, value) == [ResultBase(id) EXCEPT !["result"] = value]

\* handleClientToolResult, and handleClientToolFailure where it ends there: the
\* message passed to sendData for the outcome o of invocation id
ClientToolResult(id, o) ==
  CASE o.kind = "string" -> StringResult(id, o.value)
    [] o.kind = "throw" -> ClientToolFailure(id, o.error, "boom")
    [] o.kind = "null" ->
         \* typeof result.result throws a TypeError, which the caller catches
         ClientToolFailure(id, "Error", "TypeError")
    [] OTHER ->
         IF Malformed(o.obj)
         THEN [ResultBase(id) EXCEPT !["errorType"] = FailureType,
                                     !["errorMessage"] = "contract"]
         ELSE IF build = "tail"
              THEN \* { type, invocationId, result: resultString, responseType }
                   [ResultBase(id) EXCEPT !["result"] = o.obj["result"],
                                          !["responseType"] = o.obj["responseType"]]
              ELSE Spread(ResultBase(id), o.obj)

\* the message for a tool that is not registered
UnregisteredType_Implementation == FailureType

UnregisteredType == "undefined"

NotRegistered(id) ==
  [ResultBase(id) EXCEPT !["errorType"] = UnregisteredType,
                         !["errorMessage"] = "not-registered"]

\* invokeClientTool, called by handleDataReceived for a client_tool_invocation that
\* room r delivers; how is "sync" for an implementation that returns or throws and
\* "promise" for one that returns a Promise
InvokeClientTool(r, toolName, id, o, how, bytes) ==
  /\ discMicro = 0
  /\ roomState[r] = "connected"
  /\ toolState[id] = "unused"
  /\ IF toolName \notin registeredTools
     THEN /\ out' = NotRegistered(id)
          /\ SendData(bytes)
          /\ toolState' = [toolState EXCEPT ![id] = "done"]
          /\ outcome' = [NoOutcome EXCEPT !.id = id, !.tool = toolName, !.how = "unregistered"]
     ELSE /\ outcome' = [id |-> id, tool |-> toolName, how |-> how, o |-> o]
          /\ IF how = "promise"
             THEN /\ out' = NoMessage
                  /\ NoSend
                  /\ toolState' = [toolState EXCEPT ![id] = "pending"]
             ELSE /\ out' = ClientToolResult(id, o)
                  /\ SendData(bytes)
                  /\ toolState' = [toolState EXCEPT ![id] = "done"]
  /\ Mark("toolInvocation", "", FALSE)
  /\ NoStatus
  /\ History("other")
  /\ UNCHANGED <<build, trVars, hostVars, progVars2, hsTorn, registeredTools>>

\* the promise of invocation id settles with outcome o ("throw" is a rejection): the
\* then and catch callbacks of invokeClientTool
SettleTool(id, o, bytes) ==
  /\ discMicro = 0
  /\ toolState[id] = "pending"
  /\ out' = ClientToolResult(id, o)
  /\ SendData(bytes)
  /\ toolState' = [toolState EXCEPT ![id] = "done"]
  /\ outcome' = [id |-> id, tool |-> Absent, how |-> "settled", o |-> o]
  /\ Mark("toolSettled", "", FALSE)
  /\ NoStatus
  /\ History("other")
  /\ UNCHANGED <<build, trVars, hostVars, progVars2, hsTorn, registeredTools>>

\* ====================================================== mute and unmute
\* this.room?.localParticipant and this.room?.remoteParticipants: a Room has both
\* from its construction on, so each test asks only whether this.room is set
MuteGuard_None(rm) == TRUE

MuteGuard(rm) == rm # 0

MuteMic ==
  /\ Mark("muteMic", "", ~MuteGuard(room))
  /\ isMicMuted' = IF MuteGuard(room) THEN TRUE ELSE isMicMuted
  /\ micDisabled' = IF MuteGuard(room) THEN isMicMuted' ELSE micDisabled
  /\ NoSend
  /\ NoStatus
  /\ History("other")
  /\ UNCHANGED <<build, trVars, toolVars, progVars2, hsTorn, experimentalMessages, xevent,
                 isSpeakerMuted, agentMuted>>

UnmuteMic ==
  /\ Mark("unmuteMic", "", ~MuteGuard(room))
  /\ isMicMuted' = IF MuteGuard(room) THEN FALSE ELSE isMicMuted
  /\ micDisabled' = IF MuteGuard(room) THEN isMicMuted' ELSE micDisabled
  /\ NoSend
  /\ NoStatus
  /\ History("other")
  /\ UNCHANGED <<build, trVars, toolVars, progVars2, hsTorn, experimentalMessages, xevent,
                 isSpeakerMuted, agentMuted>>

\* calls unmuteMic when muted, muteMic when not
ToggleMicMute ==
  /\ Mark("toggleMicMute", "", ~MuteGuard(room))
  /\ isMicMuted' = IF MuteGuard(room) THEN ~isMicMuted ELSE isMicMuted
  /\ micDisabled' = IF MuteGuard(room) THEN isMicMuted' ELSE micDisabled
  /\ NoSend
  /\ NoStatus
  /\ History("other")
  /\ UNCHANGED <<build, trVars, toolVars, progVars2, hsTorn, experimentalMessages, xevent,
                 isSpeakerMuted, agentMuted>>

MuteSpeaker ==
  /\ Mark("muteSpeaker", "", ~MuteGuard(room))
  /\ isSpeakerMuted' = IF MuteGuard(room) THEN TRUE ELSE isSpeakerMuted
  /\ agentMuted' = IF MuteGuard(room) THEN isSpeakerMuted' ELSE agentMuted
  /\ NoSend
  /\ NoStatus
  /\ History("other")
  /\ UNCHANGED <<build, trVars, toolVars, progVars2, hsTorn, experimentalMessages, xevent,
                 isMicMuted, micDisabled>>

UnmuteSpeaker ==
  /\ Mark("unmuteSpeaker", "", ~MuteGuard(room))
  /\ isSpeakerMuted' = IF MuteGuard(room) THEN FALSE ELSE isSpeakerMuted
  /\ agentMuted' = IF MuteGuard(room) THEN isSpeakerMuted' ELSE agentMuted
  /\ NoSend
  /\ NoStatus
  /\ History("other")
  /\ UNCHANGED <<build, trVars, toolVars, progVars2, hsTorn, experimentalMessages, xevent,
                 isMicMuted, micDisabled>>

\* calls unmuteSpeaker when muted, muteSpeaker when not
ToggleSpeakerMute ==
  /\ Mark("toggleSpeakerMute", "", ~MuteGuard(room))
  /\ isSpeakerMuted' = IF MuteGuard(room) THEN ~isSpeakerMuted ELSE isSpeakerMuted
  /\ agentMuted' = IF MuteGuard(room) THEN isSpeakerMuted' ELSE agentMuted
  /\ NoSend
  /\ NoStatus
  /\ History("other")
  /\ UNCHANGED <<build, trVars, toolVars, progVars2, hsTorn, experimentalMessages, xevent,
                 isMicMuted, micDisabled>>

\* ------------------------- handleDataReceived, a type the if-chain does not name
Recognized(type) == type \in {"state", "transcript", "client_tool_invocation"}

\* message types the server may send beyond those
OtherTypes == {"debug", "ping"}

\* if (this.experimentalMessages): the field always holds a Set, and an object is
\* truthy whatever it contains
OptedIn(em) == TRUE

ExperimentalMessage(r, type) ==
  /\ discMicro = 0
  /\ roomState[r] = "connected"
  /\ ~Recognized(type)
  /\ xevent' = IF OptedIn(experimentalMessages) THEN type ELSE "none"
  /\ Mark("data", type, FALSE)
  /\ NoSend
  /\ NoStatus
  /\ History("other")
  /\ UNCHANGED <<build, trVars, toolVars, progVars2, hsTorn, experimentalMessages,
                 isMicMuted, isSpeakerMuted, micDisabled, agentMuted>>

\* the values the `state` field of a state message may hold: msg.state is passed to
\* setStatus as it comes off the wire
WireStates == ServerStates \cup {DISCONNECTED, "unknown"}

\* ------------------------------------------------------------------- Next
\* the handlers every variant has
Lifecycle ==
  \/ JoinCall
  \/ LeaveCall
  \/ DisconnectResumeMicro
  \/ DisconnectResumeMacro
  \/ \E s \in SocketIds : SocketClose(s)
  \/ \E s \in SocketIds : SocketMessage(s)
  \/ \E r \in RoomIds : RoomConnected(r)
  \/ \E r \in RoomIds, b \in BOOLEAN : HandshakeResolve(r, b)
  \/ \E r \in RoomIds : HandshakeReject(r)
  \/ \E r \in RoomIds, b \in BOOLEAN : TrackSubscribed(r, b)
  \/ \E r \in RoomIds, st \in ServerStates : StateMessage(r, st)

Next ==
  \/ Lifecycle
  \/ \E n \in MessageSizes : SendText(n)
  \/ SetOutputMedium

Spec == Init /\ [][Next]_vars

\* the build in dist/cjs: no sendText, no setOutputMedium
InitLegacy ==
  /\ build = "legacy"
  /\ status = DISCONNECTED
  /\ socket = 0
  /\ room = 0
  /\ localAudioTrack = 0
  /\ micSourceNode = FALSE
  /\ agentSourceNode = FALSE
  /\ delayedSpeakingState = FALSE
  /\ sockState = [s \in SocketIds |-> "unused"]
  /\ roomState = [r \in RoomIds |-> "unused"]
  /\ hs = [r \in RoomIds |-> "none"]
  /\ roomSock = [r \in RoomIds |-> 0]
  /\ discMicro = 0
  /\ discMacro = 0
  /\ op = "init"
  /\ arg = ""
  /\ threw = FALSE
  /\ event = "none"
  /\ sent = "none"
  /\ sentBytes = 0
  /\ tick = 0
  /\ hsTorn = [r \in RoomIds |-> FALSE]
  /\ lc = 0
  /\ dn = 0
  /\ transcripts = <<>>
  /\ tevent = FALSE
  /\ utt = NoUtt
  /\ tseen = <<>>
  /\ msg = NoMsg
  /\ ToolsInit
  /\ HostInit

SpecLegacy == InitLegacy /\ [][Lifecycle]_vars

\* ---- the transcript store alone, in a call whose room is connected
TranscriptTypes == {"voice_synced_transcript", "agent_text_transcript"}

InitTranscript ==
  /\ build \in {"tail", "current"}
  /\ status = LISTENING
  /\ socket = 1
  /\ room = 1
  /\ localAudioTrack = 1
  /\ micSourceNode = TRUE
  /\ agentSourceNode = FALSE
  /\ delayedSpeakingState = FALSE
  /\ sockState = [s \in SocketIds |-> IF s = 1 THEN "open" ELSE "unused"]
  /\ roomState = [r \in RoomIds |-> IF r = 1 THEN "connected" ELSE "unused"]
  /\ hs = [r \in RoomIds |-> IF r = 1 THEN "done" ELSE "none"]
  /\ roomSock = [r \in RoomIds |-> IF r = 1 THEN 1 ELSE 0]
  /\ discMicro = 0
  /\ discMacro = 0
  /\ op = "state"
  /\ arg = LISTENING
  /\ threw = FALSE
  /\ event = LISTENING
  /\ sent = "none"
  /\ sentBytes = 0
  /\ tick = 0
  /\ hsTorn = [r \in RoomIds |-> FALSE]
  /\ lc = 0
  /\ dn = 0
  /\ transcripts = <<>>
  /\ tevent = FALSE
  /\ utt = NoUtt
  /\ tseen = <<>>
  /\ msg = NoMsg
  /\ ToolsInit
  /\ HostInit

NextTranscript ==
  \/ \E t \in TextPieces, f \in FinalFlags, m \in {"voice", "text"} : UserTranscript(t, f, m)
  \/ \E ty \in TranscriptTypes, t \in TextPieces, f \in FinalFlags : AgentText(ty, t, f)
  \/ \E ty \in TranscriptTypes, d \in DeltaPieces, f \in FinalFlags : AgentDelta(ty, d, f)
  \/ \E o \in Ordinals, m \in {"voice", "text"}, r \in {"user", "agent"}, f \in FinalFlags :
        \/ \E t \in TextPieces : OrdinalTranscript(o, m, r, f, "text", t) /\ UNCHANGED msg
        \/ \E d \in DeltaPieces : OrdinalTranscript(o, m, r, f, "delta", d) /\ UNCHANGED msg

SpecTranscript == InitTranscript /\ [][NextTranscript]_vars

\* ---- tool dispatch in a joined call, which may be left while tools are pending
InitTools ==
  /\ build = "current"
  /\ status = LISTENING
  /\ socket = 1
  /\ room = 1
  /\ localAudioTrack = 1
  /\ micSourceNode = TRUE
  /\ agentSourceNode = FALSE
  /\ delayedSpeakingState = FALSE
  /\ sockState = [s \in SocketIds |-> IF s = 1 THEN "open" ELSE "unused"]
  /\ roomState = [r \in RoomIds |-> IF r = 1 THEN "connected" ELSE "unused"]
  /\ hs = [r \in RoomIds |-> IF r = 1 THEN "done" ELSE "none"]
  /\ roomSock = [r \in RoomIds |-> IF r = 1 THEN 1 ELSE 0]
  /\ discMicro = 0
  /\ discMacro = 0
  /\ op = "state"
  /\ arg = LISTENING
  /\ threw = FALSE
  /\ event = LISTENING
  /\ sent = "none"
  /\ sentBytes = 0
  /\ tick = 0
  /\ hsTorn = [r \in RoomIds |-> FALSE]
  /\ lc = 0
  /\ dn = 0
  /\ transcripts = <<>>
  /\ tevent = FALSE
  /\ utt = NoUtt
  /\ tseen = <<>>
  /\ msg = NoMsg
  /\ ToolsInit
  /\ HostInit

NextTools ==
  \/ \E n \in MessageSizes : SendText(n)
  \/ SetOutputMedium
  \/ \E n \in ToolNames : RegisterTool(n)
  \/ \E r \in RoomIds, n \in ToolNames, i \in InvocationIds, o \in Outcomes,
        h \in {"sync", "promise"}, b \in MessageSizes : InvokeClientTool(r, n, i, o, h, b)
  \/ \E i \in InvocationIds, o \in Outcomes, b \in MessageSizes : SettleTool(i, o, b)
  \/ LeaveCall
  \/ DisconnectResumeMicro
  \/ DisconnectResumeMacro

SpecTools == InitTools /\ [][NextTools]_vars

\* ---- the ordinal-indexed transcript store alone, in a call whose room is connected
InitOrdinal == InitTranscript /\ build = "current"

NextOrdinal ==
  \E o \in Ordinals, m \in {"voice", "text"}, r \in {"user", "agent"}, f \in {"true", "false"} :
    \/ \E t \in TextPieces : OrdinalMessage(o, m, r, f, "text", t)
    \/ \E d \in DeltaPieces : OrdinalMessage(o, m, r, f, "delta", d)

SpecOrdinal == InitOrdinal /\ [][NextOrdinal]_vars

\* ---- the transcript store and the registered tools over the life of calls: a
\* session from its construction on, with transcript messages while a room is held
InitFrame == Init

NextFrame ==
  \/ \E n \in ToolNames : RegisterTool(n)
  \/ JoinCall
  \/ LeaveCall
  \/ DisconnectResumeMicro
  \/ DisconnectResumeMacro
  \/ \E s \in SocketIds : SocketClose(s)
  \/ \E s \in SocketIds : SocketMessage(s)
  \/ \E r \in RoomIds : RoomConnected(r)
  \/ \E r \in RoomIds, b \in BOOLEAN : HandshakeResolve(r, b)
  \/ \E o \in Ordinals :
        room # 0 /\ OrdinalTranscript(o, "voice", "agent", "true", "text", "a") /\ UNCHANGED msg

SpecFrame == InitFrame /\ [][NextFrame]_vars

\* ---- tool results in both variants that have tools, in a call whose room is
\* connected
InitToolResult ==
  \E b \in {"current", "tail"} :
    /\ build = b
    /\ status = LISTENING
    /\ socket = 1
    /\ room = 1
    /\ localAudioTrack = 1
    /\ micSourceNode = TRUE
    /\ agentSourceNode = FALSE
    /\ delayedSpeakingState = FALSE
    /\ sockState = [s \in SocketIds |-> IF s = 1 THEN "open" ELSE "unused"]
    /\ roomState = [r \in RoomIds |-> IF r = 1 THEN "connected" ELSE "unused"]
    /\ hs = [r \in RoomIds |-> IF r = 1 THEN "done" ELSE "none"]
    /\ roomSock = [r \in RoomIds |-> IF r = 1 THEN 1 ELSE 0]
    /\ discMicro = 0
    /\ discMacro = 0
    /\ op = "state"
    /\ arg = LISTENING
    /\ threw = FALSE
    /\ event = LISTENING
    /\ sent = "none"
    /\ sentBytes = 0
    /\ tick = 0
    /\ hsTorn = [r \in RoomIds |-> FALSE]
    /\ lc = 0
    /\ dn = 0
    /\ transcripts = <<>>
    /\ tevent = FALSE
    /\ utt = NoUtt
    /\ tseen = <<>>
    /\ msg = NoMsg
    /\ ToolsInit
    /\ HostInit

NextToolResult ==
  \/ \E n \in ToolNames : RegisterTool(n)
  \/ \E r \in RoomIds, n \in ToolNames, i \in InvocationIds, o \in Outcomes,
        h \in {"sync", "promise"} : InvokeClientTool(r, n, i, o, h, 40)
  \/ \E i \in InvocationIds, o \in Outcomes : SettleTool(i, o, 40)
  \/ LeaveCall
  \/ DisconnectResumeMicro
  \/ DisconnectResumeMacro

SpecToolResult == InitToolResult /\ [][NextToolResult]_vars

\* ---- muting over the life of calls: a session from its construction on, with the
\* handlers that set and clear this.room
InitMute == Init

NextMute ==
  \/ JoinCall
  \/ LeaveCall
  \/ DisconnectResumeMicro
  \/ DisconnectResumeMacro
  \/ \E s \in SocketIds : SocketClose(s)
  \/ \E s \in SocketIds : SocketMessage(s)
  \/ \E r \in RoomIds : RoomConnected(r)
  \/ \E r \in RoomIds, b \in BOOLEAN : HandshakeResolve(r, b)
  \/ \E r \in RoomIds : TrackSubscribed(r, TRUE)
  \/ MuteMic
  \/ UnmuteMic
  \/ ToggleMicMute
  \/ MuteSpeaker
  \/ UnmuteSpeaker
  \/ ToggleSpeakerMute

SpecMute == InitMute /\ [][NextMute]_vars

\* ---- data messages as they come off the wire, in a call whose room is connected,
\* for a session built without experimental messages or with one
InitData ==
  /\ build = "current"
  /\ status = IDLE
  /\ socket = 1
  /\ room = 1
  /\ localAudioTrack = 1
  /\ micSourceNode = TRUE
  /\ agentSourceNode = FALSE
  /\ delayedSpeakingState = FALSE
  /\ sockState = [s \in SocketIds |-> IF s = 1 THEN "open" ELSE "unused"]
  /\ roomState = [r \in RoomIds |-> IF r = 1 THEN "connected" ELSE "unused"]
  /\ hs = [r \in RoomIds |-> IF r = 1 THEN "done" ELSE "none"]
  /\ roomSock = [r \in RoomIds |-> IF r = 1 THEN 1 ELSE 0]
  /\ discMicro = 0
  /\ discMacro = 0
  /\ op = "handshake"
  /\ arg = "joined"
  /\ threw = FALSE
  /\ event = IDLE
  /\ sent = "none"
  /\ sentBytes = 0
  /\ tick = 0
  /\ hsTorn = [r \in RoomIds |-> FALSE]
  /\ lc = 0
  /\ dn = 0
  /\ transcripts = <<>>
  /\ tevent = FALSE
  /\ utt = NoUtt
  /\ tseen = <<>>
  /\ msg = NoMsg
  /\ ToolsInit
  /\ experimentalMessages \in {{}, {"debug"}}
  /\ xevent = "none"
  /\ isMicMuted = FALSE
  /\ isSpeakerMuted = FALSE
  /\ micDisabled = FALSE
  /\ agentMuted = FALSE

NextData ==
  \/ \E r \in RoomIds, st \in WireStates : StateMessage(r, st)
  \/ \E r \in RoomIds, b \in BOOLEAN : TrackSubscribed(r, b)
  \/ \E r \in RoomIds, t \in OtherTypes : ExperimentalMessage(r, t)
  \/ LeaveCall
  \/ DisconnectResumeMicro
  \/ DisconnectResumeMacro

SpecData == InitData /\ [][NextData]_vars

\* the transcript store of dist/cjs
InitTranscriptLegacy ==
  /\ build = "legacy"
  /\ status = LISTENING
  /\ socket = 1
  /\ room = 1
  /\ localAudioTrack = 1
  /\ micSourceNode = TRUE
  /\ agentSourceNode = FALSE
  /\ delayedSpeakingState = FALSE
  /\ sockState = [s \in SocketIds |-> IF s = 1 THEN "open" ELSE "unused"]
  /\ roomState = [r \in RoomIds |-> IF r = 1 THEN "connected" ELSE "unused"]
  /\ hs = [r \in RoomIds |-> IF r = 1 THEN "done" ELSE "none"]
  /\ roomSock = [r \in RoomIds |-> IF r = 1 THEN 1 ELSE 0]
  /\ discMicro = 0
  /\ discMacro = 0
  /\ op = "state"
  /\ arg = LISTENING
  /\ threw = FALSE
  /\ event = LISTENING
  /\ sent = "none"
  /\ sentBytes = 0
  /\ tick = 0
  /\ hsTorn = [r \in RoomIds |-> FALSE]
  /\ lc = 0
  /\ dn = 0
  /\ transcripts = <<>>
  /\ tevent = FALSE
  /\ utt = NoUtt
  /\ tseen = <<>>
  /\ msg = NoMsg
  /\ ToolsInit
  /\ HostInit

NextTranscriptLegacy ==
  \/ \E t \in TextPieces, f \in FinalFlags, m \in {"voice", "text"} : UserTranscript(t, f, m)
  \/ \E ty \in TranscriptTypes, t \in TextPieces, f \in FinalFlags : AgentText(ty, t, f)
  \/ \E ty \in TranscriptTypes, d \in DeltaPieces, f \in FinalFlags : AgentDelta(ty, d, f)

SpecTranscriptLegacy == InitTranscriptLegacy /\ [][NextTranscriptLegacy]_vars

\* ================================================================ claims

Pending == discMicro + discMacro

\* C1: every status update dispatches exactly one status-changed event when its
\* value differs from the current status, and none when it is equal.
C1_EventIffStatusChanges ==
  [][event' = IF status' # status THEN status' ELSE "none"]_vars

C3_OneRoomPerSocket ==
  \A s \in SocketIds : Cardinality({r \in RoomIds : roomSock[r] = s}) <= 1

\* C4: two leaveCall calls in succession dispatch exactly one Disconnected event.
C4_LeaveTwiceDisconnectsOnce ==
  (lc = 2 /\ Pending = 0) => dn = 1

\* C5: a teardown completes with status Disconnected and with the local track, the
\* room, the socket and both source nodes unset.
C5_TeardownReleasesAll ==
  op = "disconnected" =>
    /\ status = DISCONNECTED
    /\ localAudioTrack = 0
    /\ room = 0
    /\ socket = 0
    /\ ~micSourceNode
    /\ ~agentSourceNode

\* C6: a handshake that resolves after a teardown ran while it was pending is torn
\* down and never sets status to Idle.
C6_StoppedJoinNeverIdle ==
  [][\A r \in RoomIds :
       (hs[r] = "pending" /\ hs'[r] = "done" /\ hsTorn[r]) =>
         (arg' = "stopped" /\ status' # IDLE)]_vars

\* C7: sendText and setOutputMedium throw and send nothing outside Listening,
\* Thinking, Speaking; inside they send exactly one message and change nothing else.
C7_SendGuard ==
  [][op' \in {"sendText", "setOutputMedium"} =>
       /\ UNCHANGED <<progVars, transcripts>>
       /\ event' = "none"
       /\ tevent' = tevent
       /\ IF status \in {LISTENING, THINKING, SPEAKING}
          THEN ~threw' /\ sent' \in {"data", "socket"}
          ELSE threw' /\ sent' = "none"]_vars

\* C8: a Speaking state message received while the agent track is not attached leaves
\* the status alone and is applied by handleTrackSubscribed; one received while it
\* is attached is applied at once.
C8_DeferredSpeaking ==
  [][/\ (op' = "state" /\ arg' = SPEAKING /\ ~agentSourceNode) =>
          (status' = status /\ event' = "none" /\ delayedSpeakingState')
     /\ (op' = "state" /\ arg' = SPEAKING /\ agentSourceNode) =>
          (status' = SPEAKING /\ delayedSpeakingState' = delayedSpeakingState)
     /\ (op' = "trackSubscribed" /\ delayedSpeakingState) =>
          (status' = SPEAKING /\ ~delayedSpeakingState')]_vars

C8_Witness ==
  /\ op = "trackSubscribed"
  /\ status = SPEAKING
  /\ event = SPEAKING
  /\ ~delayedSpeakingState

\* C9: in the tail-replace variant an incoming entry is appended exactly when the
\* sequence is empty, the tail is final or the tail's speaker differs; otherwise it
\* replaces the tail.  So a delta after a final entry of the agent starts a new
\* entry and a delta after a non-final entry of the agent extends that entry.
C9_AppendOrReplaceTail ==
  [][(build = "tail" /\ op' = "transcript" /\ tevent') =>
       LET t == Last(transcripts') IN
       /\ IF \/ Len(transcripts) = 0
             \/ Truthy(Last(transcripts).isFinal)
             \/ Last(transcripts).speaker # t.speaker
          THEN transcripts' = Append(transcripts, t)
          ELSE /\ Len(transcripts') = Len(transcripts)
               /\ \A i \in 1..(Len(transcripts) - 1) : transcripts'[i] = transcripts[i]
       /\ (arg' = "delta" /\ Truthy(Last(transcripts).isFinal)) =>
             Len(transcripts') = Len(transcripts) + 1
       /\ (arg' = "delta" /\ ~Truthy(Last(transcripts).isFinal)) =>
             /\ Len(transcripts') = Len(transcripts)
             /\ \E d \in DeltaPieces : t.text = Last(transcripts).text \o d]_vars

C9_Witness ==
  /\ build = "tail"
  /\ op = "transcript"
  /\ arg = "delta"
  /\ tevent
  /\ Len(transcripts) = 2
  /\ transcripts[1].speaker = AGENT
  /\ Truthy(transcripts[1].isFinal)
  /\ transcripts[2].speaker = AGENT

\* C10: an utterance delivered as a full text followed by deltas is one entry whose
\* text is the full text followed by the deltas in arrival order and whose isFinal is
\* the final flag of the last message applied.
C10_UtteranceText ==
  utt.active =>
    /\ utt.at \in 1..Len(transcripts)
    /\ transcripts[utt.at].text = utt.text
    /\ transcripts[utt.at].isFinal = utt.final
    /\ transcripts[utt.at].speaker = utt.speaker
    /\ build = "tail" => utt.at = Len(transcripts)

C10_Witness ==
  /\ build = "tail"
  /\ utt.active
  /\ utt.text = "abb"
  /\ Truthy(utt.final)
  /\ Len(transcripts) = 1

\* C11: in the tail-replace variant an entry a delta extends grows by that delta,
\* and an entry a delta starts after a final entry of the agent holds the delta
\* alone, without the text of the final entry before it.
C11_DeltaTextSinceEntryBegan ==
  [][(build = "tail" /\ op' = "transcript" /\ arg' = "delta" /\ tevent') =>
       \E d \in DeltaPieces :
         Last(transcripts').text =
           IF Truthy(Last(transcripts).isFinal) THEN d ELSE Last(transcripts).text \o d]_vars

\* C12: an entry whose isFinal is true is never changed by a later message, in the
\* tail-replace variant and in the ordinal variant alike.
C12_FinalEntryImmutable ==
  [][\A i \in 1..Len(transcripts) :
       Truthy(transcripts[i].isFinal) =>
         (i <= Len(transcripts') /\ transcripts'[i] = transcripts[i])]_vars

\* C13: in the tail-replace variants an agent delta that finds the sequence empty
\* or the tail held by the user is dropped: the sequence is unchanged, no
\* transcripts-changed event is dispatched and the handler does not throw.
C13_StrayDeltaDropped ==
  [][(/\ build \in {"tail", "legacy"}
      /\ op' = "transcript"
      /\ arg' = "delta"
      /\ (Len(transcripts) = 0 \/ Last(transcripts).speaker # AGENT)) =>
       (transcripts' = transcripts /\ ~tevent' /\ ~threw')]_vars

\* C14: a message that appends or replaces an entry dispatches a transcripts-changed
\* event, whose listener reads the changed sequence through the accessor; a message
\* that is not applied dispatches none and leaves the sequence as it was.
C14_EventAfterEveryMutation ==
  [][(build \in {"tail", "current"} /\ op' = "transcript") =>
       LET applied ==
             IF build = "current"
             THEN arg' # "empty"
             ELSE arg' = "text" \/ (Len(transcripts) > 0 /\ Last(transcripts).speaker = AGENT)
       IN IF applied
          THEN /\ tevent'
               /\ tseen' = Visible(transcripts')
               /\ Len(transcripts') >= 1
               /\ Len(transcripts') >= Len(transcripts)
          ELSE /\ ~tevent'
               /\ tseen' = tseen
               /\ transcripts' = transcripts]_vars

C14_Witness ==
  /\ build = "current"
  /\ op = "transcript"
  /\ tevent
  /\ Len(transcripts) = 2
  /\ transcripts[1] = Null
  /\ Len(tseen) = 1
  /\ tseen[1].text = "ab"

\* a tool turn in which the outcome of a tool is handed to the result handlers
Delivered == op' \in {"toolInvocation", "toolSettled"} /\ outcome'.how \in {"sync", "settled"}

C16_ResultCarriesInvocationId ==
  [][(op' \in {"toolInvocation", "toolSettled"} /\ out'["type"] = "client_tool_result") =>
       out'["invocationId"] = outcome'.id]_vars

\* C17: a tool that returns a string, at once or through its promise, has exactly
\* one client_tool_result sent, with that string as result, the invocation's id and
\* no error property.
C17_StringResult ==
  [][(Delivered /\ outcome'.o.kind = "string") =>
       /\ out' = [NoMessage EXCEPT !["type"] = "client_tool_result",
                                   !["invocationId"] = outcome'.id,
                                   !["result"] = outcome'.o.value]
       /\ sent' \in {"data", "socket"}]_vars

\* C18: a tool that returns null, undefined, or an object whose result or
\* responseType is no string has exactly one client_tool_result sent, with errorType
\* "implementation-error" and no result.
C18_MalformedResult ==
  [][(/\ Delivered
      /\ \/ outcome'.o.kind = "null"
         \/ /\ outcome'.o.kind = "object"
            /\ \/ ~IsString(outcome'.o.obj["result"])
               \/ ~IsString(outcome'.o.obj["responseType"])) =>
       /\ out'["type"] = "client_tool_result"
       /\ out'["errorType"] = "implementation-error"
       /\ out'["result"] = Absent
       /\ sent' \in {"data", "socket"}]_vars

\* C19: a tool that throws, or whose promise rejects, has exactly one
\* client_tool_result sent, with errorType "implementation-error" and the message of
\* the Error if it is one, and nothing is thrown out of the handler.
C19_FailureResult ==
  [][(Delivered /\ outcome'.o.kind = "throw") =>
       /\ out' = [NoMessage EXCEPT !["type"] = "client_tool_result",
                                   !["invocationId"] = outcome'.id,
                                   !["errorType"] = "implementation-error",
                                   !["errorMessage"] =
                                      IF outcome'.o.error = "Error" THEN "boom" ELSE Absent]
       /\ sent' \in {"data", "socket"}
       /\ ~threw']_vars

\* C20: a message passed to sendData goes over exactly one transport: the data
\* transport if it is of at most 1024 bytes, the signaling socket if it is longer,
\* for sendText, setOutputMedium and tool results alike.
C20_RoutedBySize ==
  [][sentBytes' # 0 =>
       sent' = IF sentBytes' > 1024 THEN "socket" ELSE "data"]_vars

\* C21: a data message of a type the session does not recognize is dispatched as an
\* experimental-message event only by a session that was constructed with a non-empty
\* set of experimental messages; one constructed without dispatches none.
C21_ExperimentalOnlyWhenOptedIn ==
  [][(op' = "data" /\ xevent' # "none") => experimentalMessages' # {}]_vars

\* C22: muteMic, unmuteMic, toggleMicMute, muteSpeaker, unmuteSpeaker and
\* toggleSpeakerMute throw when the session holds no room (before the first message of
\* the signaling socket and after a teardown has completed), and then leave isMicMuted
\* and isSpeakerMuted as they were.
C22_MuteNeedsRoom ==
  [][(/\ op' \in {"muteMic", "unmuteMic", "toggleMicMute",
                  "muteSpeaker", "unmuteSpeaker", "toggleSpeakerMute"}
      /\ tick' # tick
      /\ room = 0)
     => (threw' /\ isMicMuted' = isMicMuted /\ isSpeakerMuted' = isSpeakerMuted)]_vars

\* unmuteMic throws after the teardown of a call in which the microphone was muted,
\* and the flag stays set
C22_Witness ==
  /\ op = "unmuteMic"
  /\ threw
  /\ room = 0
  /\ status = DISCONNECTED
  /\ sockState[1] = "closing"
  /\ isMicMuted
  /\ ~isSpeakerMuted

\* C23: state messages take effect in the order they arrive: a Speaking that was put
\* off until the agent track is attached is not applied once a later state message
\* has set the status.
C23_StateMessagesInOrder ==
  [][(/\ op = "state"
      /\ arg # SPEAKING
      /\ status = arg
      /\ delayedSpeakingState
      /\ op' = "trackSubscribed"
      /\ tick' # tick)
     => status' # SPEAKING]_vars

\* C24: the status changes only along the lifecycle: to Connecting only from
\* Disconnected, to Idle only from Connecting, to Listening, Thinking or Speaking only
\* from Idle or one of these three, to Disconnected only from Disconnecting.
C24_LifecycleOrder ==
  [][status' # status =>
       /\ status' = CONNECTING => status = DISCONNECTED
       /\ status' = IDLE => status = CONNECTING
       /\ status' \in CONNECTED_STATUSES => status \in CONNECTED_STATUSES \cup {IDLE}
       /\ status' = DISCONNECTED => status = DISCONNECTING]_vars

\* C25: the close event of a socket on which a completed teardown has called close()
\* changes nothing: not the status, and no resource of a call joined since.
C25_LateCloseIgnored ==
  [][\A s \in SocketIds :
       (sockState[s] = "closing" /\ sockState'[s] = "closed" /\ Pending = 0)
       => /\ status' = status
          /\ localAudioTrack' = localAudioTrack
          /\ roomState' = roomState]_vars

\* C26: when the join handshake fails, the failing turn begins the teardown: the
\* status does not stay Connecting.
C26_FailedHandshakeTearsDown ==
  [][(op' = "handshake" /\ arg' = "rejected" /\ tick' # tick) => status' # CONNECTING]_vars

\* C27: every client_tool_invocation is answered: the turn in which the invocation is
\* done with (the tool is unregistered, has returned or thrown, or its promise has
\* settled, be it after the call was torn down) sends one message over a transport.
C27_EveryInvocationAnswered ==
  [][\A i \in InvocationIds :
       (toolState[i] # "done" /\ toolState'[i] = "done")
       => (out' # NoMessage /\ sent' \in {"data", "socket"})]_vars

\* C28: the status is always one of the seven values of UltravoxSessionStatus,
\* whatever the `state` field of a state message holds.
C28_StatusInEnum == status \in Statuses

\* C29: whenever the status is Disconnected at the end of a turn, the session holds no
\* socket, no room and no local audio track.
C29_DisconnectedHoldsNothing ==
  status = DISCONNECTED => (socket = 0 /\ room = 0 /\ localAudioTrack = 0)

\* C30: a teardown stops the capture first, then disconnects the room, closes the
\* socket, disconnects the source nodes and detaches the playback sink, and sets the
\* status Disconnected last; until that last step the status is Disconnecting.
C30_TeardownOrder ==
  [][(op' = "disconnected" /\ tick' # tick) =>
       /\ status = DISCONNECTING
       /\ localAudioTrack = 0
       /\ room' = 0 /\ socket' = 0 /\ ~micSourceNode' /\ ~agentSourceNode'
       /\ status' = DISCONNECTED]_vars

\* C31: with several invocations pending, whichever settles, in whatever order, has
\* one client_tool_result sent in the turn it settles; the message is the one its own
\* outcome and invocation id give, and the other invocations are left as they were.
C31_ConcurrentToolsIndependent ==
  [][(op' = "toolSettled" /\ tick' # tick) =>
       /\ out' = ClientToolResult(outcome'.id, outcome'.o)
       /\ toolState[outcome'.id] = "pending"
       /\ \A j \in InvocationIds \ {outcome'.id} : toolState'[j] = toolState[j]
       /\ sent' \in {"data", "socket"}]_vars

\* C32: an outcome delivered through a promise has the same client_tool_result sent,
\* over the same transport, as the same outcome delivered by return or throw, which
\* is sent in the turn of the invocation.
C32_PromiseAsSync ==
  [][(op' = "toolSettled" /\ tick' # tick) =>
       /\ out' = ClientToolResult(outcome'.id, outcome'.o)
       /\ sent' = IF OverLimit(sentBytes') THEN "socket" ELSE "data"]_vars

\* C33: a deferred Speaking does not outlive its call: when a teardown completes, no
\* deferred Speaking is left pending for a later call's track to apply.
C33_DeferredSpeakingEndsWithCall ==
  [][(op' = "disconnected" /\ tick' # tick) => ~delayedSpeakingState']_vars

\* the indices of a sequence that hold an entry
NonNull(ts) == {i \in 1..Len(ts) : ts[i] # Null}

\* C34: ordinal variant: a message with ordinal k applied to a sequence of length
\* n <= k leaves a sequence of length k+1: the first n slots as they were, null
\* slots at n..k-1 and the new entry at k; the accessor returns the entries that
\* are not null, in ascending order of ordinal, and no null.
C34_OrdinalPadding ==
  [][(/\ op' = "transcript"
      /\ tick' # tick
      /\ arg' # "empty"
      /\ Len(transcripts) <= msg'.ordinal)
     => LET k == msg'.ordinal
            n == Len(transcripts)
        IN /\ Len(transcripts') = k + 1
           /\ \A i \in 1..n : transcripts'[i] = transcripts[i]
           /\ \A i \in (n + 1)..k : transcripts'[i] = Null
           /\ transcripts'[k + 1] =
                Transcript(Or(msg'.text, msg'.delta), msg'.final,
                           RoleOf(msg'.role), MediumOf(msg'.medium))
           /\ tevent'
           /\ Len(tseen') = Cardinality(NonNull(transcripts'))
           /\ \A j \in 1..Len(tseen') : tseen'[j] # Null
           /\ \A i \in NonNull(transcripts') :
                tseen'[Cardinality({m \in NonNull(transcripts') : m <= i})] = transcripts'[i]]_vars

\* a message with ordinal 1 has been applied to an empty sequence: one null slot, and
\* the accessor returns the one entry
C34_Witness ==
  /\ op = "transcript"
  /\ arg = "text"
  /\ msg.ordinal = 1
  /\ Len(transcripts) = 2
  /\ transcripts[1] = Null
  /\ transcripts[2] # Null
  /\ tseen = <<transcripts[2]>>

\* C35: ordinal variant: a message for an ordinal whose slot exists sets the slot's
\* text to the message's text when it has one, else to the prior text (empty for a
\* null slot) followed by the delta, always sets isFinal, speaker and medium from the
\* message, and changes no other slot.
C35_OrdinalUpdate ==
  [][(/\ op' = "transcript"
      /\ tick' # tick
      /\ Len(transcripts) > msg'.ordinal)
     => LET k == msg'.ordinal
            prior == transcripts[k + 1].text
        IN /\ Len(transcripts') = Len(transcripts)
           /\ transcripts'[k + 1].text =
                (IF msg'.text # "" THEN msg'.text ELSE prior \o msg'.delta)
           /\ transcripts'[k + 1].isFinal = msg'.final
           /\ arg' # "empty" =>
                /\ transcripts'[k + 1].speaker = RoleOf(msg'.role)
                /\ transcripts'[k + 1].medium = MediumOf(msg'.medium)
           /\ \A i \in 1..Len(transcripts) : i # k + 1 => transcripts'[i] = transcripts[i]]_vars

\* C36: ordinal variant: once a message with final = true for ordinal k has been
\* processed, the slot of ordinal k holds an entry whose isFinal is true, whatever
\* text or delta the message carried.
C36_FinalMessageMarksEntry ==
  [][(op' = "transcript" /\ tick' # tick /\ msg'.final = "true")
     => /\ Len(transcripts') > msg'.ordinal
        /\ transcripts'[msg'.ordinal + 1].isFinal = "true"]_vars

\* C37: a teardown, by leaveCall or by the close of the socket, and a joinCall after
\* it leave the transcript sequence and the registered tools as they were.
C37_TeardownKeepsStore ==
  [][(op' \in {"leaveCall", "socketClose", "disconnected", "joinCall"} /\ tick' # tick)
     => (transcripts' = transcripts /\ registeredTools' = registeredTools)]_vars

\* a second call has been joined after the teardown of one in which a transcript was
\* recorded, and the entry and the tool registered before are still there
C37_Witness ==
  /\ op = "joinCall"
  /\ ~threw
  /\ socket = 2
  /\ sockState[1] \in {"closing", "closed"}
  /\ Len(transcripts) = 2
  /\ transcripts[2] # Null
  /\ registeredTools = {"foo"}

\* C38: tail-replace variant: the transcript sequence never shrinks and is never
\* reordered; a message replaces the tail entry or appends one, and an entry that is
\* not the tail is never modified.
C38_OnlyTailReplaced ==
  [][build = "tail" =>
       LET n == Len(transcripts) IN
       /\ Len(transcripts') \in {n, n + 1}
       /\ \A i \in 1..(n - 1) : transcripts'[i] = transcripts[i]
       /\ (Len(transcripts') = n + 1 /\ n > 0) => transcripts'[n] = transcripts[n]]_vars

\* the tail of a sequence of two entries has been replaced by the agent's text
\* extended by a delta, the user's entry before it being as it was
C38_Witness ==
  /\ build = "tail"
  /\ op = "transcript"
  /\ arg = "delta"
  /\ tevent
  /\ Len(transcripts) = 2
  /\ transcripts[1] = Transcript("a", "false", USER, VOICE)
  /\ transcripts[2].speaker = AGENT
  /\ transcripts[2].text = "ab"

\* C39: whenever the session holds a room, isMicMuted is true exactly when the
\* microphone is disabled in that room and isSpeakerMuted is true exactly when the
\* agent audio tracks of that room are muted.
C39_MuteFlagsMatchRoom ==
  room # 0 => ((isMicMuted <=> micDisabled) /\ (isSpeakerMuted <=> agentMuted))

\* C40: a registered tool that returns an object whose result and responseType are
\* strings has exactly one client_tool_result sent, with that result and that
\* responseType and, in the variant that forwards them, the object's agentReaction
\* and updateCallState.
C40_StructuredResult ==
  [][(Delivered /\ outcome'.o.kind = "object" /\ ~Malformed(outcome'.o.obj)) =>
       LET obj == outcome'.o.obj IN
       /\ sent' \in {"data", "socket"}
       /\ out'["result"] = obj["result"]
       /\ out'["responseType"] = obj["responseType"]
       /\ build = "current" =>
            /\ out'["agentReaction"] = obj["agentReaction"]
            /\ out'["updateCallState"] = obj["updateCallState"]]_vars

====
